---- MODULE Spec2Model ----
(***************************************************************************)
(* Dynamic Module & Tool Manager (dynamic_tool_manager.py).                *)
(*                                                                         *)
(* The specifications of this module:                                      *)
(*   Spec         DynamicToolManager: load / reload / execute, with the    *)
(*                observer thread and the execute callers interleaving at  *)
(*                the statements where the code can be pre-empted between  *)
(*                a check and its use.                                     *)
(*   SpecDetect   DynamicToolManager: detect_and_load with load / reload.  *)
(*   SpecShutdown DynamicToolManager: shutdown while loads, reloads and    *)
(*                executions are in progress.                              *)
(*   SpecWatcher  FileWatcher.on_modified under a discrete clock.          *)
(*   SpecEvents   FileWatcher.on_modified calling on_file_changed, with    *)
(*                load / reload.                                           *)
(*   SpecDeps     DependencyManager.install_dependencies under a clock.    *)
(*   SpecFileStore  detect_and_load_requirements with the detector on a   *)
(*                database file, where the request log accepts writes.     *)
(*   SpecScoring  the scoring of detect_requirements over keyword texts.   *)
(*   SpecPool     execute_tool with more calls in flight than the pool has  *)
(*                workers.                                                 *)
(*   SpecConfig   ConfigurationManager: update and get over a config       *)
(*                directory whose writes can fail.                         *)
(*                                                                         *)
(* Strings that the code inspects (startswith, f-string concatenation) are *)
(* sequences of atoms, so that prefix tests are computed, not assumed.     *)
(***************************************************************************)
EXTENDS Integers, Sequences, FiniteSets, TLC

VARIABLES
    modules,            \* self.modules: name -> ModuleStatus
    loaded_tools,       \* self.loaded_tools: tool name -> bound callable
    module_instances,   \* self.module_instances: name -> instance
    sys_modules,        \* sys.modules restricted to the pluggable modules
    attempts,           \* number of load_module invocations so far
    last_load,          \* the most recent load_module invocation and its return value
    store,              \* what a new sqlite connection on db_path sees
    calls,              \* the execute_tool invocations, one record per caller
    observer,           \* the watchdog observer thread inside on_file_changed
    detects,            \* the detect_and_load_requirements invocations so far
    lifecycle,          \* shutdown(): its position, the observer thread, the executor
    clock,              \* time.time(), in ticks of 1 / TicksPerSecond s
    last_modified,      \* FileWatcher.last_modified: path -> time
    delivered,          \* the callback invocations of FileWatcher, in order
    fs_events,          \* the on_modified events handled so far, in order
    wall,               \* datetime.now(), in ticks of 1 / TicksPerHour h
    installed_packages, \* DependencyManager.installed_packages
    failed_installations, \* DependencyManager.failed_installations: spec -> time
    install,            \* the install_dependencies invocation in progress
    pip_runs,           \* the package-manager invocations, in order
    configurations,     \* ConfigurationManager.configurations: name -> blob
    config_files,       \* the files of the config directory: name -> content
    config_trace        \* what was set or loaded, and the last call with its result

vars == << modules, loaded_tools, module_instances, sys_modules, attempts, last_load,
           store, calls, observer, detects, lifecycle, clock, last_modified, delivered, fs_events,
           wall, installed_packages, failed_installations, install, pip_runs,
           configurations, config_files, config_trace >>

configVars == << configurations, config_files, config_trace >>
managerVarsOnly == << modules, loaded_tools, module_instances, sys_modules, attempts,
                      last_load, store, calls, observer, detects, lifecycle >>

managerVars == << modules, loaded_tools, module_instances, sys_modules, attempts,
                  last_load, store, calls, observer, detects, lifecycle, configVars >>
watcherVars == << clock, last_modified, delivered, fs_events >>
depsVars == << wall, installed_packages, failed_installations, install, pip_runs >>
notManager == << watcherVars, depsVars, configVars >>

----------------------------------------------------------------------------
(* Bounds of the model. *)

MaxLoads == 2
MaxDetects == 2

----------------------------------------------------------------------------
(* Generic helpers: dict assignment, dict deletion, str.startswith. *)

Put(f, k, v) == [x \in (DOMAIN f) \cup {k} |-> IF x = k THEN v ELSE f[x]]

Drop(f, ks) == [x \in (DOMAIN f) \ ks |-> f[x]]

StartsWith(s, p) == Len(p) <= Len(s) /\ SubSeq(s, 1, Len(p)) = p

EmptyDict == [x \in {} |-> 0]

----------------------------------------------------------------------------
(* Module names, module sources and tool names. *)

\* Names handed to load_module. The second has the first as a prefix.
Modules == { <<"data">>, <<"data", "_", "reports">> }

Attr(n, u, k) == [name |-> n, underscore |-> u, kind |-> k]

\* What a module's source file holds when it is imported: whether the import
\* runs, whether it defines the entry class, whether the constructor returns,
\* and dir(instance) in its sorted order.
Source(imp, cls, init, attrs) ==
    [import_ok |-> imp, has_class |-> cls, init_ok |-> init, attrs |-> attrs]

SrcFull ==
    Source(TRUE, TRUE, TRUE,
           << Attr("_h", TRUE, "method"), Attr("a", FALSE, "method"),
              Attr("b", FALSE, "coroutine"), Attr("c", FALSE, "data") >>)

SrcLess == Source(TRUE, TRUE, TRUE, << Attr("a", FALSE, "method") >>)

SrcBadProperty ==
    Source(TRUE, TRUE, TRUE,
           << Attr("a", FALSE, "method"), Attr("b", FALSE, "raising_property") >>)

SrcBadInit == Source(TRUE, TRUE, FALSE, << Attr("a", FALSE, "method") >>)

SrcNoClass == Source(TRUE, FALSE, FALSE, << >>)

SrcSyntaxError == Source(FALSE, FALSE, FALSE, << >>)

Sources == { SrcFull, SrcLess, SrcBadProperty, SrcBadInit, SrcNoClass, SrcSyntaxError }

MethodNames == { "a", "b" }

\* tool_name = f"{module_name}_{method_name}"
ToolName(module_name, method_name) == module_name \o << "_", method_name >>

ToolNames == { ToolName(m, n) : m \in Modules, n \in MethodNames }

\* A name no module registers.
UnknownTool == << "nosuch", "_", "a" >>

NoModule == << >>

\* The names execute_tool is called with: a plain method and a coroutine of
\* the first module, and the unknown name.
ExecNames == { ToolName(<< "data" >>, "a"), ToolName(<< "data" >>, "b"), UnknownTool }

----------------------------------------------------------------------------
(* The embedded store (sqlite3). *)

\* RequirementDetector.__init__(db_path=":memory:"); DynamicToolManager builds
\* its detector with no argument.
db_path == ":memory:"

\* What sqlite3.connect(path) sees before anything was created on path.
EmptyDbAt(path) ==
    [path |-> path, tables |-> {}, user_requests |-> << >>, tool_usage |-> << >>]

EmptyDb == EmptyDbAt(db_path)

\* sqlite3.connect(db_path). Every connection to ":memory:" opens a new, empty,
\* private database; a connection to a file sees what was committed to it.
connect(st) == IF st.path = ":memory:" THEN EmptyDbAt(st.path) ELSE st

\* conn.commit(); conn.close(): what the next connection on db_path will see.
\* A private in-memory database is discarded when its connection closes.
commit_close(st, conn) == IF st.path = ":memory:" THEN st ELSE conn

\* CREATE TABLE IF NOT EXISTS user_requests / tool_usage, commit, close.
setup_database(st) ==
    LET conn == connect(st)
    IN  commit_close(st, [conn EXCEPT !.tables = @ \cup {"user_requests", "tool_usage"}])

\* INSERT INTO user_requests; raises OperationalError when the table is missing.
_store_user_request(st, request_text) ==
    LET conn == connect(st)
    IN  IF "user_requests" \notin conn.tables
        THEN [store |-> st, raised |-> TRUE]
        ELSE [store |-> commit_close(st, [conn EXCEPT !.user_requests = Append(@, request_text)]),
              raised |-> FALSE]

SetMin(S) == CHOOSE x \in S : \A y \in S : x <= y

\* success_rate is kept as an exact fraction << numerator, denominator >>.
NewRate(rate, usage_count, success) ==
    << rate[1] * usage_count + (IF success THEN 1 ELSE 0) * rate[2],
       rate[2] * (usage_count + 1) >>

\* An update that writes into a store all connections share, and inserts a row
\* without looking for the tool's row first.
_update_tool_usage_blind_insert(st, tool_name, success) ==
    [st EXCEPT !.tables = @ \cup {"tool_usage"},
               !.tool_usage = Append(@, [tool_name |-> tool_name,
                                         usage_count |-> 1,
                                         success_rate |-> IF success THEN << 1, 1 >>
                                                                     ELSE << 0, 1 >>])]

\* SELECT the tool's row; UPDATE it or INSERT a first row; commit; close.
\* Any exception (a missing table) is caught and logged: nothing is written.
\* On ":memory:" the first statement, the SELECT, raises, so no other thread
\* can run between a statement of this function that succeeded and the next.
_update_tool_usage(st, tool_name, success) ==
    LET conn == connect(st)
        rows == conn.tool_usage
        hits == { i \in DOMAIN rows : rows[i].tool_name = tool_name }
    IN  IF "tool_usage" \notin conn.tables
        THEN st
        ELSE IF hits # {}
        THEN LET row == rows[SetMin(hits)]
                 upd == [tool_name |-> tool_name,
                         usage_count |-> row.usage_count + 1,
                         success_rate |-> NewRate(row.success_rate, row.usage_count, success)]
             IN  commit_close(st, [conn EXCEPT !.tool_usage =
                                     [i \in DOMAIN rows |-> IF i \in hits THEN upd ELSE rows[i]]])
        ELSE commit_close(st, [conn EXCEPT !.tool_usage =
                                 Append(rows, [tool_name |-> tool_name,
                                               usage_count |-> 1,
                                               success_rate |-> IF success THEN << 1, 1 >>
                                                                           ELSE << 0, 1 >>])])

\* The rows of user_requests a new connection reads (none when the table is missing).
request_log(st) ==
    LET conn == connect(st)
    IN  IF "user_requests" \notin conn.tables THEN << >> ELSE conn.user_requests

\* get_usage_analytics: the rows a new connection reads (none when the SELECT fails).
usage_stats(st) ==
    LET conn == connect(st)
    IN  IF "tool_usage" \notin conn.tables THEN << >> ELSE conn.tool_usage

\* The usage_count recorded for a tool: 0 when it has no row.
UsageCount(tool_name) ==
    LET rows == usage_stats(store)
        hits == { i \in DOMAIN rows : rows[i].tool_name = tool_name }
    IN  IF hits = {} THEN 0 ELSE rows[SetMin(hits)].usage_count

\* The success_rate recorded for a tool, as a fraction: 0 when it has no row.
SuccessRate(tool_name) ==
    LET rows == usage_stats(store)
        hits == { i \in DOMAIN rows : rows[i].tool_name = tool_name }
    IN  IF hits = {} THEN << 0, 1 >> ELSE rows[SetMin(hits)].success_rate

----------------------------------------------------------------------------
(* ModuleRegistry: load_module and reload_module. *)

ModuleStatus(name) ==
    [name |-> name, loaded |-> FALSE, error_count |-> 0, last_error |-> "",
     dependencies_met |-> TRUE]

ClassOf(src) == [has_class |-> src.has_class, init_ok |-> src.init_ok, attrs |-> src.attrs]

\* importlib.reload(sys.modules[name]) if the module was imported before, else
\* importlib.import_module(name). A reload runs the source in the module's old
\* namespace: a class the new source no longer defines stays defined. An import
\* that raises leaves sys.modules as it was.
import_or_reload(sys, module_name, src) ==
    IF ~src.import_ok
    THEN [sys |-> sys, raised |-> TRUE]
    ELSE IF module_name \in DOMAIN sys /\ ~src.has_class
    THEN [sys |-> sys, raised |-> FALSE]
    ELSE [sys |-> Put(sys, module_name, ClassOf(src)), raised |-> FALSE]

BoundMethod(module_name, instance, a) ==
    [module |-> module_name, method |-> a.name, inst |-> instance.id, kind |-> a.kind]

\* for method_name in dir(instance): skip underscore names; getattr (a property
\* whose getter raises ends the loop with the exception); register the callables.
RECURSIVE enumerate_attrs(_, _, _, _)
enumerate_attrs(tools, module_name, instance, i) ==
    IF i > Len(instance.attrs)
    THEN [tools |-> tools, raised |-> FALSE]
    ELSE LET a == instance.attrs[i]
         IN  IF a.underscore
             THEN enumerate_attrs(tools, module_name, instance, i + 1)
             ELSE IF a.kind = "raising_property"
             THEN [tools |-> tools, raised |-> TRUE]
             ELSE IF a.kind \notin {"method", "coroutine"}
             THEN enumerate_attrs(tools, module_name, instance, i + 1)
             ELSE enumerate_attrs(Put(tools, ToolName(module_name, a.name),
                                      BoundMethod(module_name, instance, a)),
                                  module_name, instance, i + 1)

_load_tools_from_instance(tools, module_name, instance) ==
    enumerate_attrs(tools, module_name, instance, 1)

\* A failed load that also unregisters the module's tools.
load_failed_unregistering(S, module_name, message) ==
    [S EXCEPT !.modules = Put(@, module_name,
                              [@[module_name] EXCEPT !.loaded = FALSE,
                                                     !.error_count = @ + 1,
                                                     !.last_error = message]),
              !.loaded_tools = [t \in { u \in DOMAIN @ : @[u].module # module_name } |-> @[t]],
              !.ret = FALSE]

\* A failed load that forgets the module: its status entry is removed.
load_failed_forgetting(S, module_name, message) ==
    [S EXCEPT !.modules = Drop(@, { module_name }), !.ret = FALSE]

\* The except branch of load_module: loaded = False, error_count += 1, last_error.
load_failed(S, module_name, message) ==
    [S EXCEPT !.modules = Put(@, module_name,
                              [@[module_name] EXCEPT !.loaded = FALSE,
                                                     !.error_count = @ + 1,
                                                     !.last_error = message]),
              !.ret = FALSE]

\* A successful load that leaves the error counter and message as they were.
load_succeeded_keeping_errors(S, module_name) ==
    [S EXCEPT !.modules = Put(@, module_name, [@[module_name] EXCEPT !.loaded = TRUE]),
              !.ret = TRUE]

\* The success branch of load_module: loaded = True, error_count = 0, last_error = "".
load_succeeded(S, module_name) ==
    [S EXCEPT !.modules = Put(@, module_name,
                              [@[module_name] EXCEPT !.loaded = TRUE,
                                                     !.error_count = 0,
                                                     !.last_error = ""]),
              !.ret = TRUE]

\* load_module(module_name) on the registry S, with src the content of the
\* module's source file at the time of the import.
load_module(S, module_name, src) ==
    LET imp == import_or_reload(S.sys_modules, module_name, src)
        S0 == [modules |-> IF module_name \in DOMAIN S.modules
                           THEN S.modules
                           ELSE Put(S.modules, module_name, ModuleStatus(module_name)),
               loaded_tools |-> S.loaded_tools,
               module_instances |-> S.module_instances,
               sys_modules |-> imp.sys,
               attempts |-> S.attempts + 1,
               ret |-> FALSE]
    IN  IF imp.raised
        THEN load_failed(S0, module_name, "ImportError")
        ELSE IF ~imp.sys[module_name].has_class
        THEN load_failed(S0, module_name, "AttributeError")
        ELSE IF ~imp.sys[module_name].init_ok
        THEN load_failed(S0, module_name, "InitError")
        ELSE LET instance == [id |-> S0.attempts, attrs |-> imp.sys[module_name].attrs]
                 S1 == [S0 EXCEPT !.module_instances = Put(@, module_name, instance)]
                 lt == _load_tools_from_instance(S1.loaded_tools, module_name, instance)
                 S2 == [S1 EXCEPT !.loaded_tools = lt.tools]
             IN  IF lt.raised
                 THEN load_failed(S2, module_name, "PropertyError")
                 ELSE load_succeeded(S2, module_name)

\* reload_module that does not look for a stored instance.
has_prior_instance_always(instances, module_name) == TRUE

\* Line 408: if module_name in self.module_instances
has_prior_instance(instances, module_name) == module_name \in DOMAIN instances

\* reload_module, first half: del self.loaded_tools[tool] for every tool whose
\* name starts with module_name.
remove_old_tools(tools, module_name) ==
    Drop(tools, { t \in DOMAIN tools : StartsWith(t, module_name) })

Registry ==
    [modules |-> modules, loaded_tools |-> loaded_tools,
     module_instances |-> module_instances, sys_modules |-> sys_modules,
     attempts |-> attempts]

----------------------------------------------------------------------------
(* execute_tool: one record per invocation. *)

\* The two callers of execute_tool: the MCP call_tool handler and the dashboard's
\* execute_tool_interface, each on a thread (and event loop) of its own.
Calls == { 1, 2 }

\* ThreadPoolExecutor(max_workers=4)
max_workers == 4

NoFunc == [module |-> NoModule, method |-> "", inst |-> 0, kind |-> "none"]

\* The dict execute_tool returns: the keys it holds, and their values.
Result(keys, success, error) == [keys |-> keys, success |-> success, error |-> error]

NoResult == Result({}, FALSE, "")

\* {"error": f"Tool {tool_name} not found or not loaded"}
ToolNotFound == Result({"error"}, FALSE, "not found or not loaded")

\* {"result": result, "success": True}
Succeeded == Result({"result", "success"}, TRUE, "")

\* {"error": str(e), "success": False}
Failed(e) == Result({"error", "success"}, FALSE, e)

\* pc: idle -> (done | lookup) -> (done | awaiting | queued -> running) -> done.
\* present: whether the name was registered when the call was made;
\* ran: whether a tool body was executed; nupd: _update_tool_usage invocations.
IdleCall ==
    [pc |-> "idle", tool |-> << >>, func |-> NoFunc, result |-> NoResult,
     present |-> FALSE, ran |-> FALSE, raised |-> FALSE, nupd |-> 0]

\* execute_tool without its membership test.
execute_check_missing(tools, call, tool_name) ==
    [call EXCEPT !.pc = "lookup", !.tool = tool_name, !.present = tool_name \in DOMAIN tools]

\* Line 463: the membership test. A missing name returns at once.
execute_check(tools, call, tool_name) ==
    IF tool_name \notin DOMAIN tools
    THEN [call EXCEPT !.pc = "done", !.tool = tool_name, !.result = ToolNotFound]
    ELSE [call EXCEPT !.pc = "lookup", !.tool = tool_name, !.present = TRUE]

\* Lines 467-474: the subscript (KeyError when the name is gone by now, which
\* the except branch reports like a tool failure) and the dispatch: a coroutine
\* function is awaited, anything else is submitted to the executor.
execute_dispatch(tools, call) ==
    IF call.tool \notin DOMAIN tools
    THEN [call EXCEPT !.pc = "done", !.result = Failed("KeyError"), !.nupd = @ + 1]
    ELSE [call EXCEPT !.func = tools[call.tool],
                      !.pc = IF tools[call.tool].kind = "coroutine"
                             THEN "awaiting" ELSE "queued"]

\* run_in_executor on an executor that was shut down: submit raises
\* RuntimeError, which the except branch reports like a tool failure.
submit_refused(call) ==
    [call EXCEPT !.pc = "done", !.result = Failed("RuntimeError"), !.nupd = @ + 1]

\* execute_tool without its except branch: the exception leaves the coroutine
\* and no dict is returned.
execute_finish_uncaught(call, raised) ==
    [call EXCEPT !.pc = "done", !.ran = TRUE, !.raised = raised,
                 !.nupd = IF raised THEN @ ELSE @ + 1,
                 !.result = IF raised THEN NoResult ELSE Succeeded]

\* Lines 476-484: the tool body returned (raised = FALSE) or raised an Exception.
execute_finish(call, raised) ==
    [call EXCEPT !.pc = "done", !.ran = TRUE, !.raised = raised, !.nupd = @ + 1,
                 !.result = IF raised THEN Failed("tool exception") ELSE Succeeded]

\* The calls whose tool body a worker of the pool is executing.
Running == { c \in DOMAIN calls : calls[c].pc = "running" }

\* A pool that starts a thread for every submitted call.
worker_always_free(running) == TRUE

\* ThreadPoolExecutor: a submitted call is taken up when fewer than
\* max_workers workers are busy; until then it stays in the work queue.
worker_free(running) == Cardinality(running) < max_workers

----------------------------------------------------------------------------
(* DependencyManager: its caches and the loop over the dependencies. *)

\* Resolution of datetime.now() in the model, and the horizon of the clock.
TicksPerHour == 2
MaxWall == 3
MaxPipRuns == 3

\* datetime.now() - self.failed_installations[dep] < timedelta(hours=1)
CooldownTicks == 1 * TicksPerHour

\* Dependency specs: a bare name, and a name with a version qualifier.
DepSpecs == { << "numpy" >>, << "Requests", ">=", "2.0" >> }

DepLists == { << d >> : d \in DepSpecs } \cup { << d, e >> : d, e \in DepSpecs }

\* subprocess.run(pip install dep): exit code 0, another exit code,
\* TimeoutExpired, or any other exception.
PipOutcomes == { "ok", "nonzero", "timeout", "error" }

PackageLower(word) == IF word = "Requests" THEN "requests" ELSE word

\* dep.split('>=')[0].split('==')[0].strip().lower()
BareName(dep) ==
    LET cut == { i \in DOMAIN dep : dep[i] \in { ">=", "==" } }
        head == IF cut = {} THEN dep ELSE SubSeq(dep, 1, SetMin(cut) - 1)
    IN  [i \in DOMAIN head |-> PackageLower(head[i])]

\* The cooldown test with its comparison reversed.
recently_failed_reversed(failed, dep, now) ==
    dep \in DOMAIN failed /\ now - failed[dep] > CooldownTicks

\* Whether the loop skips dep: it failed, and less than an hour ago.
recently_failed(failed, dep, now) ==
    dep \in DOMAIN failed /\ now - failed[dep] < CooldownTicks

\* One iteration of the loop of install_dependencies on
\* D = [installed_packages, failed_installations, results, pip_runs, skipped],
\* skipped being the specs this invocation did not hand to the package manager.
install_one(D, dep, now, outcome) ==
    IF recently_failed(D.failed_installations, dep, now)
    THEN [D EXCEPT !.results = Put(@, dep, FALSE), !.skipped = @ \cup { dep }]
    ELSE IF outcome = "ok"
    THEN [D EXCEPT !.results = Put(@, dep, TRUE),
                   !.installed_packages = @ \cup { BareName(dep) },
                   !.pip_runs = Append(@, [dep |-> dep, time |-> now, outcome |-> outcome])]
    ELSE [D EXCEPT !.results = Put(@, dep, FALSE),
                   !.failed_installations = Put(@, dep, now),
                   !.pip_runs = Append(@, [dep |-> dep, time |-> now, outcome |-> outcome])]

\* check_dependencies(dependencies): spec -> whether its bare name is in the
\* installed cache.
check_dependencies(installed, dependencies) ==
    [dep \in { dependencies[i] : i \in DOMAIN dependencies } |-> BareName(dep) \in installed]

\* install_dependencies(dependencies) from index i, run to its return at time
\* now, every invocation of the package manager ending in outcome.
RECURSIVE install_dependencies(_, _, _, _, _)
install_dependencies(D, dependencies, i, now, outcome) ==
    IF i > Len(dependencies) THEN D
    ELSE install_dependencies(install_one(D, dependencies[i], now, outcome),
                              dependencies, i + 1, now, outcome)

----------------------------------------------------------------------------
(* RequirementDetector.detect_requirements and detect_and_load_requirements. *)

Categories == << "financial", "health", "productivity", "security", "data" >>

\* self.patterns
patterns(category) ==
    CASE category = "financial" ->
           << "budget", "expense", "money", "cost", "financial", "payment" >>
      [] category = "health" ->
           << "wellness", "health", "fitness", "exercise", "sleep", "stress" >>
      [] category = "productivity" ->
           << "task", "schedule", "time", "productivity", "focus", "work" >>
      [] category = "security" ->
           << "security", "privacy", "encrypt", "audit", "compliance" >>
      [] category = "data" ->
           << "report", "analysis", "chart", "visualization", "insight" >>

\* A text is a sequence of words. str.lower() on the words that occur.
Lower(word) ==
    CASE word = "I" -> "i"
      [] word = "SECURITY" -> "security"
      [] OTHER -> word

\* keyword in user_input_lower: a substring test, so a keyword is found inside
\* a longer word.
Contains(word, keyword) ==
    word = keyword \/ << word, keyword >> \in { << "expenses", "expense" >> }

\* "I need to track my budget and expenses"
BudgetText == << "I", "need", "to", "track", "my", "budget", "and", "expenses" >>

Texts ==
    { BudgetText,
      << "SECURITY" >>,
      << "report", "chart", "sleep", "stress" >>,
      << "hello" >> }

KeywordHits(category, text) ==
    Cardinality({ i \in DOMAIN patterns(category) :
                    \E j \in DOMAIN text : Contains(Lower(text[j]), patterns(category)[i]) })

\* A threshold that lets a single keyword through.
Detected_any_hit(category, text) == KeywordHits(category, text) > 0

\* confidence > 0.2 with confidence = hits / len(keywords), in exact arithmetic.
Detected(category, text) == KeywordHits(category, text) * 5 > Len(patterns(category))

\* priority = int(confidence * 5)
Priority(category, text) == (KeywordHits(category, text) * 5) \div Len(patterns(category))

\* A requirement that declares a package.
Requirement_with_dependency(category, text) ==
    [name |-> << category, "_", "tool" >>, category |-> category,
     priority |-> Priority(category, text), dependencies |-> << << "numpy" >> >>,
     auto_install |-> TRUE]

\* ToolRequirement(name=f"{category}_tool", category=category, priority=...);
\* dependencies defaults to [] and auto_install to True.
Requirement(category, text) ==
    [name |-> << category, "_", "tool" >>, category |-> category,
     priority |-> Priority(category, text), dependencies |-> << >>, auto_install |-> TRUE]

RECURSIVE requirements_from(_, _)
requirements_from(i, text) ==
    IF i > Len(Categories) THEN << >>
    ELSE (IF Detected(Categories[i], text)
          THEN << Requirement(Categories[i], text) >> ELSE << >>)
         \o requirements_from(i + 1, text)

\* detect_requirements: the request is stored first (an exception there leaves
\* the function at once), then the categories are scored.
detect_requirements(st, user_input) ==
    LET stored == _store_user_request(st, user_input)
    IN  [store |-> stored.store, raised |-> stored.raised,
         requirements |-> IF stored.raised THEN << >> ELSE requirements_from(1, user_input)]

\* module_mapping of load_module_by_category
module_mapping(category) ==
    CASE category = "financial" -> << "financial", "_", "compliance" >>
      [] category = "health" -> << "health", "_", "focus" >>
      [] category = "productivity" -> << "task", "_", "automation" >>
      [] category = "security" -> << "security", "_", "privacy" >>
      [] category = "data" -> << "data", "_", "reports" >>

\* The categories, as a set.
CategorySet == { Categories[i] : i \in DOMAIN Categories }

\* The categories a text has a keyword of: the only ones whose files a
\* detect_and_load_requirements(text) call can come to look at.
Mentioned(text) == { c \in CategorySet : KeywordHits(c, text) > 0 }

\* What the mapped module's source holds at the time of a detect call:
\* an importable module, or one whose import raises (absent or broken).
DetectSources == { SrcFull, SrcSyntaxError }

\* What an invocation of the package manager ends in during a detect call:
\* exit code 0, or TimeoutExpired.
DetectPipOutcomes == { "ok", "timeout" }

\* The dependency branch of the loop (lines 312-319) for one requirement, on
\* D = [installed_packages, failed_installations, results, pip_runs, skipped]:
\* the dependencies that check_dependencies reports missing are installed when
\* the requirement allows it. installed holds the specs whose install succeeded.
resolve_dependencies(D, req, now, outcome) ==
    IF req.dependencies = << >>
    THEN [D |-> D, installed |-> << >>]
    ELSE LET dep_status == check_dependencies(D.installed_packages, req.dependencies)
             missing_deps == SelectSeq(req.dependencies, LAMBDA dep : ~dep_status[dep])
         IN  IF missing_deps # << >> /\ req.auto_install
             THEN LET D1 == install_dependencies(
                                [D EXCEPT !.results = EmptyDict, !.skipped = {}],
                                missing_deps, 1, now, outcome)
                  IN  [D |-> D1,
                       installed |-> SelectSeq(missing_deps, LAMBDA dep : D1.results[dep])]
             ELSE [D |-> D, installed |-> << >>]

\* A loop that keeps no record of the requirements that failed.
record_outcome_dropping_failures(out, req, ok) ==
    IF ok THEN [out EXCEPT !.loaded_modules = Append(@, req.name)] ELSE out

\* results["loaded_modules"].append(name) or results["failed_modules"].append(name)
record_outcome(out, req, ok) ==
    IF ok THEN [out EXCEPT !.loaded_modules = Append(@, req.name)]
    ELSE [out EXCEPT !.failed_modules = Append(@, req.name)]

\* The loop of detect_and_load_requirements over the requirements from index i:
\* present holds the categories whose f"{category}_module.py" exists, srcOf the
\* source each mapped module holds; S is the registry, D the caches of the
\* DependencyManager, now the time and outcome what the package manager does.
RECURSIVE load_requirements(_, _, _, _, _, _, _, _, _, _)
load_requirements(S, D, reqs, i, present, srcOf, now, outcome, out, last) ==
    IF i > Len(reqs) THEN [S |-> S, D |-> D, out |-> out, last |-> last]
    ELSE LET req == reqs[i]
         IN  IF req.category \in present
             THEN LET R == resolve_dependencies(D, req, now, outcome)
                      S1 == load_module(S, module_mapping(req.category), srcOf[req.category])
                  IN  load_requirements(
                          [modules |-> S1.modules, loaded_tools |-> S1.loaded_tools,
                           module_instances |-> S1.module_instances,
                           sys_modules |-> S1.sys_modules, attempts |-> S1.attempts],
                          R.D, reqs, i + 1, present, srcOf, now, outcome,
                          record_outcome(
                              [out EXCEPT !.installed_dependencies = @ \o R.installed],
                              req, S1.ret),
                          [module |-> module_mapping(req.category), via |-> "load_module",
                           ret |-> S1.ret])
             ELSE load_requirements(S, D, reqs, i + 1, present, srcOf, now, outcome,
                                    record_outcome(out, req, FALSE), last)

----------------------------------------------------------------------------
(* The manager's state after construction, and its operations. *)

NoLoad == [module |-> NoModule, via |-> "none", ret |-> FALSE]

\* After __init__: setup_monitoring has started the observer thread, the
\* executor accepts work, shutdown has not been called. at_stop and at_drain
\* record what was in progress when shutdown stopped the monitor and when it
\* began to drain the pool.
Serving ==
    [pc |-> "serving", observer_thread |-> "running", executor |-> "open",
     monitoring_active |-> TRUE, reload_at_stop |-> FALSE, at_drain |-> {}]

InitManager ==
    /\ modules = EmptyDict
    /\ loaded_tools = EmptyDict
    /\ module_instances = EmptyDict
    /\ sys_modules = EmptyDict
    /\ attempts = 0
    /\ last_load = NoLoad
    /\ store = setup_database(EmptyDb)
    /\ calls = [c \in Calls |-> IdleCall]
    /\ observer = [pc |-> "idle", module |-> NoModule]
    /\ detects = << >>
    /\ lifecycle = Serving

InitWatcher ==
    /\ clock = 0
    /\ last_modified = EmptyDict
    /\ delivered = << >>
    /\ fs_events = << >>

InitDeps ==
    /\ wall = 0
    /\ installed_packages = {}
    /\ failed_installations = EmptyDict
    /\ install = [pc |-> "idle", todo |-> << >>, results |-> EmptyDict, skipped |-> {}]
    /\ pip_runs = << >>

\* ConfigurationManager() on an empty config directory.
InitConfig ==
    /\ configurations = EmptyDict
    /\ config_files = EmptyDict
    /\ config_trace = [expected |-> EmptyDict, unsaved |-> {},
                       last |-> [op |-> "none", name |-> "", value |-> EmptyDict,
                                 raised |-> FALSE]]

Init == InitManager /\ InitWatcher /\ InitDeps /\ InitConfig

SetRegistry(S) ==
    /\ modules' = S.modules
    /\ loaded_tools' = S.loaded_tools
    /\ module_instances' = S.module_instances
    /\ sys_modules' = S.sys_modules
    /\ attempts' = S.attempts

\* load_module(m) called directly (start-up, a collaborator). The call is one
\* step: the observer thread and the callers of execute_tool see the registry
\* before it or after it.
LoadModule(m, src) ==
    /\ attempts < MaxLoads
    /\ LET S == load_module(Registry, m, src)
       IN  /\ SetRegistry(S)
           /\ last_load' = [module |-> m, via |-> "load_module", ret |-> S.ret]
    /\ UNCHANGED << store, calls, observer, detects >>
    /\ UNCHANGED << lifecycle, notManager >>

\* on_file_changed(path) on the observer thread, the stem of path being m:
\* a module with a status entry is reloaded, and reload_module does nothing
\* for a module without a stored instance. Otherwise it removes the old tools;
\* the thread can be pre-empted before it goes on to load_module.
FileChanged(m) ==
    /\ attempts < MaxLoads
    /\ observer.pc = "idle"
    /\ lifecycle.observer_thread # "exited"
    /\ IF m \in DOMAIN modules /\ has_prior_instance(module_instances, m)
       THEN /\ loaded_tools' = remove_old_tools(loaded_tools, m)
            /\ observer' = [pc |-> "reload", module |-> m]
       ELSE UNCHANGED << loaded_tools, observer >>
    /\ UNCHANGED << modules, module_instances, sys_modules, attempts, last_load,
                    store, calls, detects >>
    /\ UNCHANGED << lifecycle, notManager >>

\* reload_module, second half: self.load_module(module_name).
ReloadLoad(src) ==
    /\ observer.pc = "reload"
    /\ LET S == load_module(Registry, observer.module, src)
       IN  /\ SetRegistry(S)
           /\ last_load' = [module |-> observer.module, via |-> "reload_module", ret |-> S.ret]
    /\ observer' = [pc |-> "idle", module |-> NoModule]
    /\ UNCHANGED << store, calls, detects >>
    /\ UNCHANGED << lifecycle, notManager >>

\* Callers are interchangeable: they are numbered in the order they call.
ExecuteTool(c, tool_name) ==
    /\ calls[c].pc = "idle"
    /\ \A d \in DOMAIN calls : d < c => calls[d].pc # "idle"
    /\ calls' = [calls EXCEPT ![c] = execute_check(loaded_tools, @, tool_name)]
    /\ UNCHANGED << modules, loaded_tools, module_instances, sys_modules, attempts,
                    last_load, store, observer, detects >>
    /\ UNCHANGED << lifecycle, notManager >>

ExecuteDispatch(c) ==
    /\ calls[c].pc = "lookup"
    /\ LET call == execute_dispatch(loaded_tools, calls[c])
       IN  IF call.pc = "queued" /\ lifecycle.executor = "shutdown"
           THEN /\ calls' = [calls EXCEPT ![c] = submit_refused(call)]
                /\ store' = _update_tool_usage(store, calls[c].tool, FALSE)
           ELSE /\ calls' = [calls EXCEPT ![c] = call]
                /\ store' = IF calls[c].tool \notin DOMAIN loaded_tools
                            THEN _update_tool_usage(store, calls[c].tool, FALSE)
                            ELSE store
    /\ UNCHANGED << modules, loaded_tools, module_instances, sys_modules, attempts,
                    last_load, observer, detects >>
    /\ UNCHANGED << lifecycle, notManager >>

\* A worker of the pool picks the submitted call up.
PoolStart(c) ==
    /\ calls[c].pc = "queued"
    /\ worker_free(Running)
    /\ calls' = [calls EXCEPT ![c].pc = "running"]
    /\ UNCHANGED << modules, loaded_tools, module_instances, sys_modules, attempts,
                    last_load, store, observer, detects >>
    /\ UNCHANGED << lifecycle, notManager >>

ToolCompletes(c, raised) ==
    /\ calls[c].pc \in {"awaiting", "running"}
    /\ calls' = [calls EXCEPT ![c] = execute_finish(@, raised)]
    /\ store' = _update_tool_usage(store, calls[c].tool, ~raised)
    /\ UNCHANGED << modules, loaded_tools, module_instances, sys_modules, attempts,
                    last_load, observer, detects >>
    /\ UNCHANGED << lifecycle, notManager >>

\* detect_and_load_requirements(text), with the files on disk at the time of
\* the call: present holds the categories whose f"{category}_module.py" exists
\* (module_exists), srcOf the source each mapped module holds, outcome what an
\* invocation of the package manager would end in. An exception of
\* detect_requirements (line 298, outside the try) is not caught here: it
\* reaches the caller, and the record of the call has raised = TRUE.
DetectAndLoad(text, present, srcOf, outcome) ==
    /\ Len(detects) < MaxDetects
    /\ \E d \in { detect_requirements(store, text) } :
       LET out0 == [text |-> text, present |-> present, srcOf |-> srcOf,
                    raised |-> FALSE, detected |-> d.requirements,
                    loaded_modules |-> << >>, failed_modules |-> << >>,
                    installed_dependencies |-> << >>, loads |-> 0]
       IN  /\ store' = d.store
           /\ IF d.raised
              THEN /\ detects' = Append(detects, [out0 EXCEPT !.raised = TRUE])
                   /\ UNCHANGED << modules, loaded_tools, module_instances, sys_modules,
                                   attempts, last_load >>
                   /\ UNCHANGED << installed_packages, failed_installations, pip_runs >>
              ELSE /\ attempts + Len(d.requirements) <= MaxLoads
                   /\ \E r \in { load_requirements(
                                    Registry,
                                    [installed_packages |-> installed_packages,
                                     failed_installations |-> failed_installations,
                                     results |-> EmptyDict, pip_runs |-> pip_runs,
                                     skipped |-> {}],
                                    d.requirements, 1, present, srcOf, wall, outcome,
                                    out0, last_load) } :
                       /\ SetRegistry(r.S)
                       /\ last_load' = r.last
                       /\ installed_packages' = r.D.installed_packages
                       /\ failed_installations' = r.D.failed_installations
                       /\ pip_runs' = r.D.pip_runs
                       /\ detects' = Append(detects,
                                            [r.out EXCEPT !.loads = r.S.attempts - attempts])
    /\ UNCHANGED << calls, observer, lifecycle, wall, install >>
    /\ UNCHANGED << watcherVars, configVars >>

\* Thread.join() that does not wait.
join_returns_at_once(thread) == TRUE

\* file_observer.join() returns once the observer thread has left its loop.
join_returns(thread) == thread = "exited"

\* The calls the worker pool holds: submitted, or being run by a worker.
InPool == { c \in Calls : calls[c].pc \in {"queued", "running"} }

\* shutdown(), line 553-554: file_observer.stop() asks the observer thread to
\* leave its loop; the caller then waits in join().
ShutdownStop ==
    /\ lifecycle.pc = "serving"
    /\ lifecycle' = [lifecycle EXCEPT !.pc = "joining", !.observer_thread = "stopping",
                                      !.reload_at_stop = (observer.pc = "reload")]
    /\ UNCHANGED << modules, loaded_tools, module_instances, sys_modules, attempts,
                    last_load, store, calls, observer, detects >>
    /\ UNCHANGED notManager

\* The observer thread, asked to stop, finishes the handler it is in (a thread
\* already past its keep-running test may still dispatch an event) and exits.
ObserverExits ==
    /\ lifecycle.observer_thread = "stopping"
    /\ observer.pc = "idle"
    /\ lifecycle' = [lifecycle EXCEPT !.observer_thread = "exited"]
    /\ UNCHANGED << modules, loaded_tools, module_instances, sys_modules, attempts,
                    last_load, store, calls, observer, detects >>
    /\ UNCHANGED notManager

\* Lines 555-557: join() has returned; executor.shutdown(wait=True) closes the
\* executor to new work and waits for the work it holds.
ShutdownDrain ==
    /\ lifecycle.pc = "joining"
    /\ join_returns(lifecycle.observer_thread)
    /\ lifecycle' = [lifecycle EXCEPT !.pc = "draining", !.executor = "shutdown",
                                      !.at_drain = InPool]
    /\ UNCHANGED << modules, loaded_tools, module_instances, sys_modules, attempts,
                    last_load, store, calls, observer, detects >>
    /\ UNCHANGED notManager

\* Lines 557-559: the pool is empty, executor.shutdown returns,
\* monitoring_active = False, shutdown returns.
ShutdownReturn ==
    /\ lifecycle.pc = "draining"
    /\ InPool = {}
    /\ lifecycle' = [lifecycle EXCEPT !.pc = "done", !.monitoring_active = FALSE]
    /\ UNCHANGED << modules, loaded_tools, module_instances, sys_modules, attempts,
                    last_load, store, calls, observer, detects >>
    /\ UNCHANGED notManager

Next ==
    \/ \E m \in Modules, src \in Sources : LoadModule(m, src)
    \/ \E m \in Modules : FileChanged(m)
    \/ \E src \in Sources : ReloadLoad(src)
    \/ \E c \in Calls, t \in ExecNames : ExecuteTool(c, t)
    \/ \E c \in Calls : ExecuteDispatch(c)
    \/ \E c \in Calls : PoolStart(c)
    \/ \E c \in Calls, raised \in BOOLEAN : ToolCompletes(c, raised)

Spec == Init /\ [][Next]_vars

NextDetect ==
    \/ \E text \in Texts :
          \E present \in SUBSET Mentioned(text), srcOf \in [Mentioned(text) -> DetectSources],
             outcome \in DetectPipOutcomes :
             DetectAndLoad(text, present, srcOf, outcome)
    \/ \E m \in Modules, src \in Sources : LoadModule(m, src)
    \/ \E m \in Modules : FileChanged(m)
    \/ \E src \in Sources : ReloadLoad(src)

SpecDetect == Init /\ [][NextDetect]_vars

\* The execute_tool calls in flight at once in the pool specification: one
\* more than the pool has workers.
MaxCallers == 5

PoolCallers == 1..MaxCallers

\* A plain method and a coroutine of the loaded module.
PoolNames == { ToolName(<< "data" >>, "a"), ToolName(<< "data" >>, "b") }

\* The manager after construction, with MaxCallers requests to come.
InitPool ==
    /\ modules = EmptyDict
    /\ loaded_tools = EmptyDict
    /\ module_instances = EmptyDict
    /\ sys_modules = EmptyDict
    /\ attempts = 0
    /\ last_load = NoLoad
    /\ store = setup_database(EmptyDb)
    /\ calls = [c \in PoolCallers |-> IdleCall]
    /\ observer = [pc |-> "idle", module |-> NoModule]
    /\ detects = << >>
    /\ lifecycle = Serving
    /\ InitWatcher /\ InitDeps /\ InitConfig

\* The module is loaded once; the requests come before and after that.
NextPool ==
    \/ /\ attempts = 0
       /\ LoadModule(<< "data" >>, SrcFull)
    \/ \E c \in PoolCallers, t \in PoolNames : ExecuteTool(c, t)
    \/ \E c \in PoolCallers : ExecuteDispatch(c)
    \/ \E c \in PoolCallers : PoolStart(c)
    \/ \E c \in PoolCallers : ToolCompletes(c, FALSE)

SpecPool == InitPool /\ [][NextPool]_vars

\* C29: at most 4 tool bodies run in the pool at any time; a call in the pool
\* (waiting for a worker or run by one) is a call of a tool that is no
\* coroutine function, a call that is awaited directly is one of a coroutine
\* function, and a waiting call is taken up only while fewer than 4 run.
C29_AtMostFourInPool ==
    /\ Cardinality(Running) <= 4
    /\ \A c \in DOMAIN calls :
          /\ calls[c].pc \in {"queued", "running"} => calls[c].func.kind = "method"
          /\ calls[c].pc = "awaiting" => calls[c].func.kind = "coroutine"

\* Four bodies run, and a fifth call of a plain method waits in the queue.
C29_Witness ==
    /\ Cardinality(Running) = 4
    /\ \E c \in DOMAIN calls : calls[c].pc = "queued" /\ calls[c].func.kind = "method"

\* A database file as db_path: RequirementDetector(db_path) keeps its tables
\* from one connection to the next.
FileDbPath == "requests.db"

\* The first k keywords of a category, for every category and every k: texts
\* that score every confidence a keyword list allows.
KeywordTexts ==
    UNION { { SubSeq(patterns(c), 1, k) : k \in 0..Len(patterns(c)) } : c \in CategorySet }

\* The manager with its detector on a database file: the store in which the
\* request-log write succeeds, so that detect_requirements returns and the
\* loop of detect_and_load_requirements runs.
InitFileStore ==
    /\ modules = EmptyDict
    /\ loaded_tools = EmptyDict
    /\ module_instances = EmptyDict
    /\ sys_modules = EmptyDict
    /\ attempts = 0
    /\ last_load = NoLoad
    /\ store = setup_database(EmptyDbAt(FileDbPath))
    /\ calls = [c \in Calls |-> IdleCall]
    /\ observer = [pc |-> "idle", module |-> NoModule]
    /\ detects = << >>
    /\ lifecycle = Serving
    /\ InitWatcher /\ InitDeps /\ InitConfig

NextFileStore ==
    \E text \in Texts :
       \E present \in SUBSET Mentioned(text), srcOf \in [Mentioned(text) -> DetectSources],
          outcome \in DetectPipOutcomes :
          DetectAndLoad(text, present, srcOf, outcome)

SpecFileStore == InitFileStore /\ [][NextFileStore]_vars

\* The scoring of detect_requirements over the keyword texts, no module file
\* being on disk.
NextScoring ==
    \E text \in KeywordTexts :
       DetectAndLoad(text, {}, [c \in Mentioned(text) |-> SrcSyntaxError], "ok")

SpecScoring == InitFileStore /\ [][NextScoring]_vars

\* The sources a module holds while the manager shuts down: one that loads,
\* one whose import raises.
ShutdownSources == { SrcFull, SrcSyntaxError }

NextShutdown ==
    \/ \E m \in Modules, src \in ShutdownSources : LoadModule(m, src)
    \/ \E m \in Modules : FileChanged(m)
    \/ \E src \in ShutdownSources : ReloadLoad(src)
    \/ \E c \in Calls, t \in ExecNames : ExecuteTool(c, t)
    \/ \E c \in Calls : ExecuteDispatch(c)
    \/ \E c \in Calls : PoolStart(c)
    \/ \E c \in Calls, raised \in BOOLEAN : ToolCompletes(c, raised)
    \/ ShutdownStop
    \/ ObserverExits
    \/ ShutdownDrain
    \/ ShutdownReturn

SpecShutdown == Init /\ [][NextShutdown]_vars

----------------------------------------------------------------------------
(* Properties. *)

CallsOn(tool_name) == { c \in Calls : calls[c].pc # "idle" /\ calls[c].tool = tool_name }

\* The tools the instance stored for module m exposes.
ToolsOf(m) ==
    { ToolName(m, module_instances[m].attrs[i].name) :
        i \in { j \in DOMAIN module_instances[m].attrs :
                  /\ ~module_instances[m].attrs[j].underscore
                  /\ module_instances[m].attrs[j].kind \in {"method", "coroutine"} } }

\* C1: once the calls made on a tool have all completed successfully, the
\* usage_count recorded for the tool is the number of those calls (the store
\* starts empty, so the prior count is 0): no update is lost.
C1_UsageCountsEveryCall ==
    \A t \in ExecNames :
        (\A c \in CallsOn(t) : calls[c].pc = "done" /\ calls[c].result = Succeeded)
            => UsageCount(t) = Cardinality(CallsOn(t))

\* C2: after a reload of M whose load step failed, no tool of M is registered.
C2_FailedReloadLeavesNoTools ==
    (last_load.via = "reload_module" /\ ~last_load.ret)
        => \A t \in DOMAIN loaded_tools : loaded_tools[t].module # last_load.module

\* C3: a direct load_module(M) that returns false leaves every tool of M that
\* was registered before the call in the registry, where execute_tool finds it.
C3_FailedLoadKeepsTools ==
    [][ (attempts' = attempts + 1 /\ last_load'.via = "load_module" /\ ~last_load'.ret)
          => \A t \in DOMAIN loaded_tools :
                loaded_tools[t].module = last_load'.module
                    => /\ t \in DOMAIN loaded_tools'
                       /\ execute_check(loaded_tools', IdleCall, t).pc = "lookup" ]_vars

C3_Witness ==
    /\ last_load.via = "load_module"
    /\ ~last_load.ret
    /\ \E t \in DOMAIN loaded_tools :
          /\ loaded_tools[t].module = last_load.module
          /\ loaded_tools[t].inst < attempts
          /\ modules[last_load.module].error_count = 1

\* C4: an execute_tool call made with a name that is not registered returns the
\* ToolNotFound result at once, without invoking _update_tool_usage and without
\* changing the store.
C4_UnknownToolNoMutation ==
    [][ \A c \in Calls :
          (calls[c].pc = "idle" /\ calls'[c].pc # "idle"
             /\ calls'[c].tool \notin DOMAIN loaded_tools)
            => /\ calls'[c].pc = "done"
               /\ calls'[c].result = ToolNotFound
               /\ calls'[c].nupd = 0
               /\ store' = store ]_vars

C4_Witness ==
    \E c \in Calls :
        /\ calls[c].pc = "done"
        /\ calls[c].result = ToolNotFound
        /\ calls[c].tool \in ToolNames
        /\ loaded_tools # EmptyDict

\* C5: an execute_tool call that has returned either ran a tool body, or
\* returned ToolNotFound without invoking _update_tool_usage; a reload in
\* between produces no third outcome.
C5_ExecuteSeesOldNewOrNotFound ==
    \A c \in Calls :
        calls[c].pc = "done"
            => \/ calls[c].ran
               \/ (calls[c].result = ToolNotFound /\ calls[c].nupd = 0)

\* C6: in every state, a module whose status says loaded has the tools of its
\* last successful load in the registry.
C6_LoadedImpliesToolsPresent ==
    \A m \in DOMAIN modules :
        modules[m].loaded => ToolsOf(m) \subseteq DOMAIN loaded_tools

\* C9: a call whose tool body raised, awaited or pooled, has returned the dict
\* {error: message, success: False}; the exception went no further.
C9_ToolExceptionReported ==
    \A c \in Calls :
        calls[c].raised
            => /\ calls[c].pc = "done"
               /\ calls[c].result.keys = {"error", "success"}
               /\ calls[c].result.success = FALSE
               /\ calls[c].result.error = "tool exception"

\* Both dispatch paths raised, one after the other had returned its failure.
C9_Witness ==
    /\ calls[1].raised /\ calls[1].func.kind = "method"
    /\ calls[2].raised /\ calls[2].func.kind = "coroutine"
    /\ calls[1].result = Failed("tool exception")
    /\ calls[2].result = Failed("tool exception")

\* C10: every detect call has appended one entry to the request log: after k
\* calls the log holds k entries.
C10_OneLogEntryPerDetect == Len(request_log(store)) = Len(detects)

\* C14: the dict an execute_tool call returned has the key success, and besides
\* it the key result alone when success is true, the key error alone when false.
C14_ResultHasSuccessAndOneOf ==
    \A c \in Calls :
        calls[c].pc = "done"
            => /\ "success" \in calls[c].result.keys
               /\ calls[c].result.keys \ {"success"}
                     = IF calls[c].result.success THEN {"result"} ELSE {"error"}

\* C15: once no execution of a registered tool is in progress, the usage_count
\* recorded for it is the number of its completed executions, and success_rate
\* times usage_count is the number of those that succeeded.
C15_UsageMatchesExecutions ==
    \A t \in ExecNames :
        (\A c \in CallsOn(t) : calls[c].pc = "done")
            => LET completed == { c \in CallsOn(t) : calls[c].ran }
                   succeeded == { c \in completed : calls[c].result = Succeeded }
               IN  /\ UsageCount(t) = Cardinality(completed)
                   /\ SuccessRate(t)[1] * UsageCount(t)
                         = Cardinality(succeeded) * SuccessRate(t)[2]

\* The rows of tool_usage for a tool name, in the persisted store and in what a
\* new connection reads.
RowsOf(tool_name) ==
    { i \in DOMAIN store.tool_usage : store.tool_usage[i].tool_name = tool_name }

RowsSeenOf(tool_name) ==
    { i \in DOMAIN usage_stats(store) : usage_stats(store)[i].tool_name = tool_name }

StateOf(mods, m) ==
    IF m \notin DOMAIN mods THEN "Unloaded"
    ELSE IF mods[m].loaded THEN "Loaded" ELSE "Failed"

\* The status entry of a module name, as a sequence: empty when it has none.
EntryOf(mods, m) == IF m \in DOMAIN mods THEN << mods[m] >> ELSE << >>

\* C17: in every step and for every module name: a status entry that exists
\* stays; the entry changes only in a step that runs load_module for that
\* name (a load request or the load of a reload), which leaves the module
\* Loaded if it returned true and Failed with a counted error if not; a load
\* of a Loaded, Failed or unknown module ends in Loaded or Failed, and a
\* reload is only run for a module that has an entry.
C17_StatusMovesAlongEdges ==
    [][ \A m \in Modules :
          /\ (m \in DOMAIN modules) => (m \in DOMAIN modules')
          /\ (EntryOf(modules', m) # EntryOf(modules, m))
                => /\ attempts' = attempts + 1
                   /\ last_load'.module = m
          /\ (attempts' = attempts + 1 /\ last_load'.module = m)
                => /\ StateOf(modules', m) = (IF last_load'.ret THEN "Loaded" ELSE "Failed")
                   /\ (~last_load'.ret) => (modules'[m].error_count >= 1)
                   /\ (last_load'.via = "reload_module")
                         => (StateOf(modules, m) # "Unloaded") ]_vars

\* A module was loaded, a file change reloaded it, and the reload left it Failed.
C17_Witness ==
    \E m \in Modules :
        /\ last_load = [module |-> m, via |-> "reload_module", ret |-> FALSE]
        /\ StateOf(modules, m) = "Failed"
        /\ modules[m].error_count = 1
        /\ m \in DOMAIN module_instances

\* C18: a step that changes the module map, the tool map or the instances is
\* not a step of the monitoring thread, and is not taken while the monitoring
\* thread is in the middle of a reload: the thread is outside reload_module
\* before and after it.
C18_MonitorNeverMutatesRegistry ==
    [][ (modules' # modules \/ loaded_tools' # loaded_tools
           \/ module_instances' # module_instances)
          => (observer.pc = "idle" /\ observer'.pc = "idle") ]_vars

\* C19: when shutdown starts to drain the pool, the observer thread has exited
\* and is in no handler; from then on no step is a step of a reload; and when
\* shutdown has returned the pool holds no call, queued or running.
C19_MonitorJoinedBeforePoolDrain ==
    [][ /\ lifecycle'.executor = "shutdown"
              => /\ lifecycle'.observer_thread = "exited"
                 /\ observer'.pc = "idle"
        /\ lifecycle.executor = "shutdown"
              => /\ observer' = observer
                 /\ (attempts' # attempts) => (last_load'.via # "reload_module")
        /\ lifecycle'.pc = "done" => InPool' = {} ]_vars

\* shutdown was called in the middle of a reload and began to drain the pool
\* while it held a call; it has returned.
C19_Witness ==
    /\ lifecycle.pc = "done"
    /\ lifecycle.reload_at_stop
    /\ lifecycle.at_drain # {}
    /\ \A c \in lifecycle.at_drain : calls[c].pc = "done" /\ calls[c].ran

\* The tool names the instance stored in instances for module m exposes.
ExposedBy(instances, m) ==
    { ToolName(m, instances[m].attrs[i].name) :
        i \in { j \in DOMAIN instances[m].attrs :
                  /\ ~instances[m].attrs[j].underscore
                  /\ instances[m].attrs[j].kind \in {"method", "coroutine"} } }

\* The registered tools that belong to module m: those a load of m registered.
OwnedBy(tools, m) == { t \in DOMAIN tools : tools[t].module = m }

\* C22: right after every load of M that returned true, the registered tools of
\* M are exactly the public callables of the instance that load created, each
\* bound to that instance.
C22_SuccessfulLoadReplacesTools ==
    [][ (attempts' = attempts + 1 /\ last_load'.ret)
          => /\ OwnedBy(loaded_tools', last_load'.module)
                   = ExposedBy(module_instances', last_load'.module)
             /\ \A t \in OwnedBy(loaded_tools', last_load'.module) :
                   loaded_tools'[t].inst = module_instances'[last_load'.module].id ]_vars

C24_ReloadTouchesOnlyOwnTools ==
    [][ (observer' # observer)
          => LET M == IF observer.pc = "idle" THEN observer'.module ELSE observer.module
             IN  \A t \in DOMAIN loaded_tools :
                    loaded_tools[t].module # M
                        => /\ t \in DOMAIN loaded_tools'
                           /\ loaded_tools'[t] = loaded_tools[t] ]_vars

\* C25: a load that returned false left the tool map as it was before the call.
C25_FailedLoadLeavesToolMap ==
    [][ (attempts' = attempts + 1 /\ ~last_load'.ret)
          => loaded_tools' = loaded_tools ]_vars

\* C11: for every detect call and every category of which the text holds at
\* least 20% of the keywords (one keyword of five included), the call returned
\* a requirement of that category with priority floor(confidence * 5).
C11_TwentyPercentIsDetected ==
    \A i \in DOMAIN detects : \A c \in CategorySet :
        KeywordHits(c, detects[i].text) * 5 >= Len(patterns(c))
            => \E k \in DOMAIN detects[i].detected :
                  /\ detects[i].detected[k].category = c
                  /\ detects[i].detected[k].priority
                        = (KeywordHits(c, detects[i].text) * 5) \div Len(patterns(c))

\* C12: a detect_and_load call with the budget text, made while
\* financial_compliance.py is present and importable, reports the financial
\* requirement as loaded, and right after it a tool whose name starts with
\* the module's name is registered.
C12_BudgetTextLoadsFinancial ==
    [][ (/\ Len(detects') = Len(detects) + 1
         /\ detects'[Len(detects')].text = BudgetText
         /\ detects'[Len(detects')].srcOf["financial"] = SrcFull)
          => /\ \E k \in DOMAIN detects'[Len(detects')].loaded_modules :
                   detects'[Len(detects')].loaded_modules[k] = << "financial", "_", "tool" >>
             /\ \E t \in DOMAIN loaded_tools' :
                   StartsWith(t, module_mapping("financial")) ]_vars

\* C13: no detect_and_load call raised: each returned its result dict.
C13_DetectAndLoadNeverRaises ==
    \A i \in DOMAIN detects : ~detects[i].raised

Count(seq, x) == Cardinality({ k \in DOMAIN seq : seq[k] = x })

NamesOf(reqs) == { reqs[k].name : k \in DOMAIN reqs }

\* C27: in every result a detect_and_load call returned, each detected
\* requirement's name occurs once in the loaded and failed lists taken
\* together, and the two lists hold detected names only.
C27_EachDetectedNameOnce ==
    \A i \in DOMAIN detects :
        ~detects[i].raised
          => /\ \A n \in NamesOf(detects[i].detected) :
                   Count(detects[i].loaded_modules, n) + Count(detects[i].failed_modules, n) = 1
             /\ \A k \in DOMAIN detects[i].loaded_modules :
                   detects[i].loaded_modules[k] \in NamesOf(detects[i].detected)
             /\ \A k \in DOMAIN detects[i].failed_modules :
                   detects[i].failed_modules[k] \in NamesOf(detects[i].detected)

\* A call returned a result with one requirement loaded and another failed.
C27_Witness ==
    \E i \in DOMAIN detects :
        /\ ~detects[i].raised
        /\ Len(detects[i].detected) = 2
        /\ Len(detects[i].loaded_modules) = 1
        /\ Len(detects[i].failed_modules) = 1

\* C28: a detect_and_load call does not invoke the package manager and leaves
\* the installed cache and the failure map as they were; the requirements it
\* detected declare no dependency and its installed_dependencies is empty.
C28_DetectNeverInstalls ==
    [][ Len(detects') = Len(detects) + 1
          => /\ pip_runs' = pip_runs
             /\ installed_packages' = installed_packages
             /\ failed_installations' = failed_installations
             /\ detects'[Len(detects')].installed_dependencies = << >>
             /\ \A k \in DOMAIN detects'[Len(detects')].detected :
                   detects'[Len(detects')].detected[k].dependencies = << >> ]_vars

\* A call returned after it loaded the module of a requirement whose file is
\* present, and the package manager has not run.
C28_Witness ==
    /\ pip_runs = << >>
    /\ \E i \in DOMAIN detects :
          /\ ~detects[i].raised
          /\ detects[i].loaded_modules # << >>
          /\ \E k \in DOMAIN detects[i].detected :
                detects[i].detected[k].category \in detects[i].present

\* C30: every requirement a detect call returned has an integer priority
\* from 1 to 5.
C30_PriorityInOneToFive ==
    \A i \in DOMAIN detects : \A k \in DOMAIN detects[i].detected :
        detects[i].detected[k].priority \in 1..5

\* Calls returned a requirement of priority 1 for two keywords of six, and one
\* of priority 5 for all keywords of a list.
C30_Witness ==
    /\ \E i \in DOMAIN detects : \E k \in DOMAIN detects[i].detected :
          /\ detects[i].detected[k].priority = 1
          /\ KeywordHits(detects[i].detected[k].category, detects[i].text) = 2
          /\ Len(patterns(detects[i].detected[k].category)) = 6
    /\ \E i \in DOMAIN detects : \E k \in DOMAIN detects[i].detected :
          /\ detects[i].detected[k].priority = 5
          /\ KeywordHits(detects[i].detected[k].category, detects[i].text)
                = Len(patterns(detects[i].detected[k].category))

\* C20: for every detect_and_load call and every category the text warrants a
\* requirement for while the category's module file is absent, the call
\* recorded the requirement as failed and not as loaded, and it made no more
\* load attempts than there are warranted categories whose file is present.
C20_AbsentModuleIsFailedUnloaded ==
    \A i \in DOMAIN detects : \A c \in CategorySet :
        (Detected(c, detects[i].text) /\ c \notin detects[i].present)
            => /\ \E k \in DOMAIN detects[i].failed_modules :
                     detects[i].failed_modules[k] = << c, "_", "tool" >>
               /\ \A k \in DOMAIN detects[i].loaded_modules :
                     detects[i].loaded_modules[k] # << c, "_", "tool" >>
               /\ detects[i].loads
                     <= Cardinality({ e \in detects[i].present : Detected(e, detects[i].text) })

----------------------------------------------------------------------------
(* FileWatcher.on_modified. *)

\* Resolution of time.time() in the model, and the horizon of the clock.
TicksPerSecond == 2
MaxClock == 4
MaxEvents == 3

\* current_time - last_modified[file_path] < 1.0
DebounceTicks == 1 * TicksPerSecond

EndsWith(s, suffix) ==
    Len(suffix) <= Len(s) /\ SubSeq(s, Len(s) - Len(suffix) + 1, Len(s)) = suffix

Event(path, is_directory) == [src_path |-> path, is_directory |-> is_directory]

\* A module source, another module source, a file that is no module source,
\* and a directory whose name ends like one.
Events ==
    { Event(<< "data", ".py" >>, FALSE), Event(<< "data", "_", "reports", ".py" >>, FALSE),
      Event(<< "notes", ".txt" >>, FALSE), Event(<< "pkg", ".py" >>, TRUE) }

\* on_modified that never stamps the path.
on_modified_unstamped(W, event, now) ==
    IF event.is_directory
    THEN W
    ELSE IF event.src_path \in DOMAIN W.last_modified
            /\ now - W.last_modified[event.src_path] < DebounceTicks
    THEN W
    ELSE [last_modified |-> W.last_modified,
          delivered |-> IF EndsWith(event.src_path, << ".py" >>)
                        THEN Append(W.delivered, [path |-> event.src_path, time |-> now])
                        ELSE W.delivered]

\* on_modified(event) at time now, on W = [last_modified, delivered]:
\* directories are ignored; an event less than 1.0 s after the last one kept
\* for its path is dropped; the others are stamped, and forwarded when the
\* path ends in ".py".
on_modified(W, event, now) ==
    IF event.is_directory
    THEN W
    ELSE IF event.src_path \in DOMAIN W.last_modified
            /\ now - W.last_modified[event.src_path] < DebounceTicks
    THEN W
    ELSE [last_modified |-> Put(W.last_modified, event.src_path, now),
          delivered |-> IF EndsWith(event.src_path, << ".py" >>)
                        THEN Append(W.delivered, [path |-> event.src_path, time |-> now])
                        ELSE W.delivered]

\* The observer thread dispatches its events one at a time.
OnModified(event) ==
    /\ LET W == on_modified([last_modified |-> last_modified, delivered |-> delivered],
                            event, clock)
       IN  /\ last_modified' = W.last_modified
           /\ delivered' = W.delivered
    /\ fs_events' = Append(fs_events, [path |-> event.src_path,
                                       is_directory |-> event.is_directory,
                                       time |-> clock])
    /\ Len(fs_events) < MaxEvents
    /\ UNCHANGED << clock, managerVars, depsVars >>

TickClock ==
    /\ clock < MaxClock
    /\ clock' = clock + 1
    /\ UNCHANGED << last_modified, delivered, fs_events, managerVars, depsVars >>

\* Path(file_path).stem: the file name without its suffix.
Stem(path) == SubSeq(path, 1, Len(path) - 1)

\* The loads a run with file events goes up to, reloads included.
MaxEventLoads == 3

\* The source files of the two modules.
ModuleEvents ==
    { Event(<< "data", ".py" >>, FALSE), Event(<< "data", "_", "reports", ".py" >>, FALSE) }

\* What a module source holds in a run with file events: a module that loads,
\* one whose constructor raises, one whose import raises.
EventSources == { SrcFull, SrcBadInit, SrcSyntaxError }

\* The observer thread dispatches an event: on_modified, which calls the
\* callback on_file_changed itself when it forwards the path; on_file_changed
\* calls reload_module for a module that has a status entry, and reload_module
\* does nothing without a stored instance. Otherwise it removes the old tools;
\* the thread can be pre-empted before it goes on to load_module.
ObserverDispatch(event) ==
    /\ observer.pc = "idle"
    /\ lifecycle.observer_thread # "exited"
    /\ Len(fs_events) < MaxEvents
    /\ attempts < MaxEventLoads
    /\ LET W == on_modified([last_modified |-> last_modified, delivered |-> delivered],
                            event, clock)
           m == Stem(event.src_path)
       IN  /\ last_modified' = W.last_modified
           /\ delivered' = W.delivered
           /\ IF /\ Len(W.delivered) > Len(delivered)
                 /\ m \in DOMAIN modules
                 /\ has_prior_instance(module_instances, m)
              THEN /\ loaded_tools' = remove_old_tools(loaded_tools, m)
                   /\ observer' = [pc |-> "reload", module |-> m]
              ELSE UNCHANGED << loaded_tools, observer >>
    /\ fs_events' = Append(fs_events, [path |-> event.src_path,
                                       is_directory |-> event.is_directory,
                                       time |-> clock])
    /\ UNCHANGED << modules, module_instances, sys_modules, attempts, last_load,
                    store, calls, detects, lifecycle, clock, depsVars, configVars >>

NextEvents ==
    \/ \E m \in Modules, src \in EventSources : LoadModule(m, src)
    \/ \E event \in ModuleEvents : ObserverDispatch(event)
    \/ \E src \in EventSources : ReloadLoad(src)
    \/ TickClock

SpecEvents == Init /\ [][NextEvents]_vars

\* C26: a file-change event forwarded for a module that has no stored instance
\* changes nothing in the registry: no tool is removed, no load is attempted
\* or started, and the module's status stays as it was.
C26_ReloadWithoutInstanceIsNoop ==
    [][ (/\ Len(delivered') = Len(delivered) + 1
         /\ Stem(delivered'[Len(delivered')].path) \notin DOMAIN module_instances)
          => /\ loaded_tools' = loaded_tools
             /\ modules' = modules
             /\ module_instances' = module_instances
             /\ attempts' = attempts
             /\ last_load' = last_load
             /\ observer' = observer ]_vars

\* A file change was forwarded for a module that is Failed without an
\* instance, while a module whose name starts with its name has its tools.
C26_Witness ==
    \E k \in DOMAIN delivered :
        LET m == Stem(delivered[k].path)
        IN  /\ m \in DOMAIN modules
            /\ ~modules[m].loaded
            /\ modules[m].error_count = 1
            /\ m \notin DOMAIN module_instances
            /\ \E t \in DOMAIN loaded_tools :
                  StartsWith(t, m) /\ loaded_tools[t].module # m

NextWatcher ==
    \/ \E event \in Events : OnModified(event)
    \/ TickClock

SpecWatcher == Init /\ [][NextWatcher]_vars

\* C7: two callback invocations for the same path are at least 1.0 s apart.
C7_DeliveriesOneSecondApart ==
    \A i, j \in DOMAIN delivered :
        (i < j /\ delivered[i].path = delivered[j].path)
            => delivered[j].time - delivered[i].time >= DebounceTicks

\* A source file changed twice within a second, and its path was forwarded once.
C7_Witness ==
    \E i, j \in DOMAIN fs_events :
        /\ i < j
        /\ fs_events[i].path = fs_events[j].path
        /\ ~fs_events[i].is_directory
        /\ EndsWith(fs_events[i].path, << ".py" >>)
        /\ fs_events[j].time > fs_events[i].time
        /\ fs_events[j].time - fs_events[i].time < DebounceTicks
        /\ Cardinality({ k \in DOMAIN delivered : delivered[k].path = fs_events[i].path }) = 1

----------------------------------------------------------------------------
(* DependencyManager.install_dependencies. *)

\* install_dependencies(dependencies) is entered.
InstallCall(deps) ==
    /\ install.pc = "idle"
    /\ Len(pip_runs) + Len(deps) <= MaxPipRuns
    /\ install' = [pc |-> "loop", todo |-> deps, results |-> EmptyDict, skipped |-> {}]
    /\ UNCHANGED << wall, installed_packages, failed_installations, pip_runs >>
    /\ UNCHANGED << managerVars, watcherVars >>

\* for dep in dependencies: one iteration.
InstallStep(outcome) ==
    /\ install.pc = "loop"
    /\ install.todo # << >>
    /\ LET D == install_one([installed_packages |-> installed_packages,
                             failed_installations |-> failed_installations,
                             results |-> install.results, pip_runs |-> pip_runs,
                             skipped |-> install.skipped],
                            Head(install.todo), wall, outcome)
       IN  /\ installed_packages' = D.installed_packages
           /\ failed_installations' = D.failed_installations
           /\ pip_runs' = D.pip_runs
           /\ install' = [install EXCEPT !.todo = Tail(@), !.results = D.results,
                                         !.skipped = D.skipped]
    /\ UNCHANGED wall
    /\ UNCHANGED << managerVars, watcherVars >>

\* return results
InstallReturn ==
    /\ install.pc = "loop"
    /\ install.todo = << >>
    /\ install' = [install EXCEPT !.pc = "idle"]
    /\ UNCHANGED << wall, installed_packages, failed_installations, pip_runs >>
    /\ UNCHANGED << managerVars, watcherVars >>

TickWall ==
    /\ wall < MaxWall
    /\ wall' = wall + 1
    /\ UNCHANGED << installed_packages, failed_installations, install, pip_runs >>
    /\ UNCHANGED << managerVars, watcherVars >>

NextDeps ==
    \/ \E deps \in DepLists : InstallCall(deps)
    \/ \E outcome \in PipOutcomes : InstallStep(outcome)
    \/ InstallReturn
    \/ TickWall

SpecDeps == Init /\ [][NextDeps]_vars

\* The time of the last failed package-manager run for dep, -1 when there is none.
LastFailure(dep) ==
    LET runs == { i \in DOMAIN pip_runs : pip_runs[i].dep = dep /\ pip_runs[i].outcome # "ok" }
    IN  IF runs = {} THEN -1 ELSE pip_runs[CHOOSE i \in runs : \A k \in runs : k <= i].time

\* C8: the loop iteration for a spec whose last failed run is less than an hour
\* old records False for it, runs no package manager and leaves the failure
\* timestamps as they were.
C8_CooldownShortCircuits ==
    [][ (/\ install.pc = "loop"
         /\ install.todo # << >>
         /\ install'.todo # install.todo
         /\ LastFailure(Head(install.todo)) >= 0
         /\ wall - LastFailure(Head(install.todo)) < CooldownTicks)
          => /\ pip_runs' = pip_runs
             /\ failed_installations' = failed_installations
             /\ install'.results[Head(install.todo)] = FALSE ]_vars

\* A spec failed, time passed, and a later invocation skipped it.
C8_Witness ==
    \E dep \in install.skipped :
        /\ install.results[dep] = FALSE
        /\ LastFailure(dep) >= 0
        /\ LastFailure(dep) < wall

----------------------------------------------------------------------------
(* ConfigurationManager. *)

ConfigNames == { "app", "db" }

\* Configuration blobs: JSON objects.
Blobs == { EmptyDict, [k \in {"level"} |-> 1], [k \in {"level"} |-> 2] }

\* The content of a config file: the JSON of a blob, or text json.load rejects
\* (what a dump that raised part-way leaves in the file opened with 'w').
FileOf(blob) == [valid |-> TRUE, blob |-> blob]

PartialFile == [valid |-> FALSE, blob |-> EmptyDict]

\* open(config_file, 'w') and json.dump: both succeed, open raises (the file
\* stays as it was), or dump raises after open truncated the file.
WriteOutcomes == { "ok", "open_fails", "dump_fails" }

\* load_configurations: every *.json file that parses becomes an entry; a file
\* that does not is logged and skipped.
load_configurations(files) ==
    [n \in { f \in DOMAIN files : files[f].valid } |-> files[n].blob]

\* update_configuration that undoes the in-memory update when the write fails.
update_configuration_rollback(C, name, config, outcome) ==
    [configurations |-> IF outcome = "ok" THEN Put(C.configurations, name, config)
                        ELSE C.configurations,
     config_files |-> CASE outcome = "ok" -> Put(C.config_files, name, FileOf(config))
                        [] outcome = "open_fails" -> C.config_files
                        [] outcome = "dump_fails" -> Put(C.config_files, name, PartialFile),
     raised |-> FALSE]

\* update_configuration(name, config) on C = [configurations, config_files]:
\* the entry is assigned first; an exception of the write is caught and logged.
update_configuration(C, name, config, outcome) ==
    [configurations |-> Put(C.configurations, name, config),
     config_files |-> CASE outcome = "ok" -> Put(C.config_files, name, FileOf(config))
                        [] outcome = "open_fails" -> C.config_files
                        [] outcome = "dump_fails" -> Put(C.config_files, name, PartialFile),
     raised |-> FALSE]

\* self.configurations.get(name, {})
get_configuration(confs, name) == IF name \in DOMAIN confs THEN confs[name] ELSE EmptyDict

\* The config directory ConfigurationManager() can find at start-up.
ConfigDirs ==
    UNION { [D -> { FileOf(b) : b \in Blobs } \cup { PartialFile }] : D \in SUBSET ConfigNames }

\* ConfigurationManager() on a config directory that holds files already.
InitConfigured ==
    /\ InitManager /\ InitWatcher /\ InitDeps
    /\ config_files \in ConfigDirs
    /\ configurations = load_configurations(config_files)
    /\ config_trace = [expected |-> [n \in { f \in DOMAIN config_files : config_files[f].valid }
                                       |-> config_files[n].blob],
                       unsaved |-> {},
                       last |-> [op |-> "none", name |-> "", value |-> EmptyDict,
                                 raised |-> FALSE]]

UpdateConfiguration(name, config, outcome) ==
    /\ LET C == update_configuration([configurations |-> configurations,
                                      config_files |-> config_files],
                                     name, config, outcome)
       IN  /\ configurations' = C.configurations
           /\ config_files' = C.config_files
           /\ config_trace' =
                [expected |-> Put(config_trace.expected, name, config),
                 unsaved |-> IF outcome = "ok" THEN config_trace.unsaved \ { name }
                             ELSE config_trace.unsaved \cup { name },
                 last |-> [op |-> "set", name |-> name, value |-> config,
                           raised |-> C.raised]]
    /\ UNCHANGED << managerVarsOnly, watcherVars, depsVars >>

GetConfiguration(name) ==
    /\ config_trace' = [config_trace EXCEPT
                          !.last = [op |-> "get", name |-> name,
                                    value |-> get_configuration(configurations, name),
                                    raised |-> FALSE]]
    /\ UNCHANGED << configurations, config_files >>
    /\ UNCHANGED << managerVarsOnly, watcherVars, depsVars >>

NextConfig ==
    \/ \E name \in ConfigNames, config \in Blobs, outcome \in WriteOutcomes :
          UpdateConfiguration(name, config, outcome)
    \/ \E name \in ConfigNames : GetConfiguration(name)

SpecConfig == InitConfigured /\ [][NextConfig]_vars

\* C21: no set raised; a get returns the blob last set for the name (or loaded
\* for it at start-up when none was set), whether or not the write of that set
\* succeeded, and the empty map for a name never set or loaded.
C21_GetReturnsLastSet ==
    /\ config_trace.last.op = "set" => ~config_trace.last.raised
    /\ config_trace.last.op = "get"
         => config_trace.last.value
              = (IF config_trace.last.name \in DOMAIN config_trace.expected
                 THEN config_trace.expected[config_trace.last.name]
                 ELSE EmptyDict)

\* A get returned the blob of a set whose write failed, the file holding
\* something else.
C21_Witness ==
    /\ config_trace.last.op = "get"
    /\ config_trace.last.name \in config_trace.unsaved
    /\ config_trace.last.value # EmptyDict
    /\ config_trace.last.value = config_trace.expected[config_trace.last.name]
    /\ \/ config_trace.last.name \notin DOMAIN config_files
       \/ config_files[config_trace.last.name] # FileOf(config_trace.last.value)

====
